---- MODULE Spec2Model ----
(***************************************************************************)
(* certbot-dns-do: the Domain-Offensive dns-01 authenticator.              *)
(*                                                                         *)
(* Model of src/certbot_dns_do/dns_do.py: the Authenticator callbacks      *)
(* (_setup_credentials, _perform, _cleanup, _get_do_client) and the two    *)
(* operations of _DomainOffensiveClient (add_txt_record, del_txt_record).  *)
(* The HTTP transport (requests), the provider and the certbot host are    *)
(* the environment: the response to each request is any element of         *)
(* Responses, and the host calls the callbacks in certbot's order          *)
(* (_setup_credentials, then _perform, then _cleanup, the last also after  *)
(* _perform has raised).                                                   *)
(***************************************************************************)
EXTENDS Integers, FiniteSets, Sequences, TLC

\* ---- bounds ------------------------------------------------------------
NumNames == 2       \* distinct validation record names
NumValues == 2      \* distinct validation values

\* Two concurrent invocations of the plugin, each with its own Authenticator.
Procs == {"certbot-A", "certbot-B"}
Domains == {"example.com", "example.org"}
Names == 1..NumNames
Values == 1..NumValues
Tokens == {"XKrxpRBosdIKFzxW"}

API_URL == "https://www.do.de/api/letsencrypt"

\* ---- the transport and the provider's answers ---------------------------
\* A JSON value of the "success" member, written as its JSON literal;
\* "absent" when the object has no such member.
SuccessValues == {"absent", "true", "false", "1", "\"true\"", "null"}

\* A response body: not JSON at all, the JSON value null, a JSON array, or a
\* JSON object with (or without) a "success" member.
Bodies ==
    {[kind |-> k, success |-> "absent"] : k \in {"unparsable", "null", "list"}}
        \cup {[kind |-> "object", success |-> s] : s \in SuccessValues}

Statuses == {200, 304, 500}

NetworkError == [net |-> "error", status |-> 0, body |-> [kind |-> "unparsable", success |-> "absent"]]

Responses ==
    {NetworkError} \cup {[net |-> "ok", status |-> s, body |-> b] : s \in Statuses, b \in Bodies}

\* The two behaviours of Response.json() on an unparsable body: requests
\* before 2.27 raises ValueError, later versions raise
\* requests.exceptions.JSONDecodeError, a RequestException.
Builds == {"json_raises_ValueError", "json_raises_RequestException"}

\* What the environment decides for one request: the response, and which
\* requests is installed (told apart only where json() meets an unparsable body).
Exchanges ==
    {x \in [resp : Responses, build : Builds] :
        x.resp.body.kind # "unparsable" \/ x.resp.net = "error" => x.build = "json_raises_ValueError"}

\* ---- exceptions and messages --------------------------------------------
\* An exception of the transport, with what its text str(e) shows: the kind of
\* failure and, for connection and status errors, the URL of the request with
\* its query string (url = <<params>>; <<>> when the text names no URL).
NoExc == [type |-> "none", status |-> 0, url |-> <<>>]
ConnectionError(params) == [type |-> "ConnectionError", status |-> 0, url |-> <<params>>]
HTTPError(params, status) == [type |-> "HTTPError", status |-> status, url |-> <<params>>]
JSONDecodeError == [type |-> "JSONDecodeError", status |-> 0, url |-> <<>>]
ValueError == [type |-> "ValueError", status |-> 0, url |-> <<>>]
TypeError == [type |-> "TypeError", status |-> 0, url |-> <<>>]

RequestExceptions == {"ConnectionError", "HTTPError", "JSONDecodeError"}

\* A message: a format string and the exception formatted into it.
NoMessage == [text |-> "", e |-> NoExc]
Message(text, e) == [text |-> text, e |-> e]

\* What a callback raised: nothing, or an exception type with its message.
Returned == [type |-> "none", msg |-> NoMessage]
Raised(type, msg) == [type |-> type, msg |-> msg]

\* ---- the calls made inside the try blocks -------------------------------
\* requests.get(API_URL, params=params): raises on a network error.
requests_get(params, resp) ==
    IF resp.net = "error" THEN ConnectionError(params) ELSE NoExc

\* r.raise_for_status(): raises HTTPError for a status in 400..599 only.
raise_for_status(params, resp) ==
    IF resp.status >= 400 /\ resp.status < 600
        THEN HTTPError(params, resp.status)
        ELSE NoExc

\* r.json(): raises on a body that is not JSON; which exception depends on
\* the installed requests.
json(resp, build) ==
    IF resp.body.kind = "unparsable"
        THEN IF build = "json_raises_RequestException" THEN JSONDecodeError ELSE ValueError
        ELSE NoExc

\* Python's `v != True` on a decoded JSON value: the number 1 equals True.
PyNotEqualTrue(v) == v \notin {"true", "1"}

\* `'success' not in result or result['success'] != True` on the decoded body:
\* the JSON value null is not iterable (TypeError); an array never contains
\* the string, so the test is true.
success_test(body) ==
    CASE body.kind = "null" -> "TypeError"
      [] body.kind = "list" -> "not_successful"
      [] body.kind = "object" /\ body.success = "absent" -> "not_successful"
      [] body.kind = "object" /\ PyNotEqualTrue(body.success) -> "not_successful"
      [] OTHER -> "successful"

\* The first exception of requests.get, raise_for_status and json, in the
\* order the try block calls them.
try_block(params, resp, build) ==
    IF requests_get(params, resp) # NoExc THEN requests_get(params, resp)
    ELSE IF raise_for_status(params, resp) # NoExc THEN raise_for_status(params, resp)
    ELSE json(resp, build)

\* ---- _DomainOffensiveClient ---------------------------------------------
\* The result of a client call: the requests it issued, what it logged with
\* logger.error, and what it raised.
Result(sent, logged, raised) == [sent |-> sent, logged |-> logged, raised |-> raised]

add_params(api_token, domain, record_name, record_content) ==
    [token |-> api_token, domain |-> record_name, value |-> record_content]

add_txt_record(api_token, domain, record_name, record_content, resp, build) ==
    LET params == add_params(api_token, domain, record_name, record_content)
        e == try_block(params, resp, build)
    IN  IF e.type \in RequestExceptions
            THEN Result(<<params>>,
                        Message("Encountered error adding TXT record: %s", e),
                        Raised("PluginError", Message("Error adding TXT record: {0}", e)))
        ELSE IF e # NoExc
            THEN Result(<<params>>, NoMessage, Raised(e.type, NoMessage))
        ELSE IF success_test(resp.body) = "TypeError"
            THEN Result(<<params>>, NoMessage, Raised("TypeError", NoMessage))
        ELSE IF success_test(resp.body) = "not_successful"
            THEN Result(<<params>>,
                        Message("Encountered error adding TXT record: not successful", NoExc),
                        Raised("PluginError", Message("Error adding TXT record: not successful", NoExc)))
        ELSE Result(<<params>>, NoMessage, Returned)

\* del_params as it would be if the deletion were scoped by the content too.
del_params_with_value(api_token, domain, record_name, record_content) ==
    [token |-> api_token, domain |-> record_name, value |-> record_content, action |-> "delete"]

del_params(api_token, domain, record_name, record_content) ==
    [token |-> api_token, domain |-> record_name, action |-> "delete"]

\* del_txt_record as it would be with one retry after a failed request.
del_txt_record_retry(api_token, domain, record_name, record_content, resp, build) ==
    LET params == del_params(api_token, domain, record_name, record_content)
        e == try_block(params, resp, build)
    IN  IF e.type \in RequestExceptions
            THEN Result(<<params, params>>,
                        Message("Encountered error deleting TXT record: %s", e),
                        Returned)
        ELSE IF e # NoExc
            THEN Result(<<params>>, NoMessage, Raised(e.type, NoMessage))
        ELSE IF success_test(resp.body) = "TypeError"
            THEN Result(<<params>>, NoMessage, Raised("TypeError", NoMessage))
        ELSE IF success_test(resp.body) = "not_successful"
            THEN Result(<<params, params>>,
                        Message("Encountered error deleting TXT record: not successful", NoExc),
                        Returned)
        ELSE Result(<<params>>, NoMessage, Returned)

del_txt_record(api_token, domain, record_name, record_content, resp, build) ==
    LET params == del_params(api_token, domain, record_name, record_content)
        e == try_block(params, resp, build)
    IN  IF e.type \in RequestExceptions
            THEN Result(<<params>>,
                        Message("Encountered error deleting TXT record: %s", e),
                        Returned)
        ELSE IF e # NoExc
            THEN Result(<<params>>, NoMessage, Raised(e.type, NoMessage))
        ELSE IF success_test(resp.body) = "TypeError"
            THEN Result(<<params>>, NoMessage, Raised("TypeError", NoMessage))
        ELSE IF success_test(resp.body) = "not_successful"
            THEN Result(<<params>>,
                        Message("Encountered error deleting TXT record: not successful", NoExc),
                        Returned)
        ELSE Result(<<params>>, NoMessage, Returned)

\* ---- Authenticator ------------------------------------------------------
None == "None"

\* The credentials INI file as its set of <<key, value>> pairs: with the
\* api-token key, or without it.
CredentialsFiles == {{}} \cup {{<<"api-token", t>>} : t \in Tokens}

\* self.credentials: None after __init__, the loaded configuration afterwards.
NoCredentials == [set |-> FALSE, confobj |-> {}]

\* credentials.conf(key): the value of the key, None when the file lacks it.
conf(credentials, key) ==
    IF \E kv \in credentials.confobj : kv[1] = key
        THEN (CHOOSE kv \in credentials.confobj : kv[1] = key)[2]
        ELSE None

\* _setup_credentials as it would be if no key were required.
_setup_credentials_nothing_required(credentials, file) ==
    [credentials |-> [set |-> TRUE, confobj |-> file], raised |-> Returned]

\* _configure_credentials with the required key 'api-token': raises
\* PluginError when the key is missing, and then self.credentials is not
\* assigned.
_setup_credentials(credentials, file) ==
    IF \E kv \in file : kv[1] = "api-token"
        THEN [credentials |-> [set |-> TRUE, confobj |-> file], raised |-> Returned]
        ELSE [credentials |-> credentials,
              raised |-> Raised("PluginError", Message("Missing property in credentials configuration file", NoExc))]

\* self.credentials.conf('api-token') on self.credentials = None raises
\* AttributeError before a client exists.
_get_do_client(credentials) ==
    IF credentials.set
        THEN [api_token |-> conf(credentials, "api-token"), raised |-> Returned]
        ELSE [api_token |-> None, raised |-> Raised("AttributeError", NoMessage)]

_perform(credentials, domain, validation_name, validation, resp, build) ==
    IF _get_do_client(credentials).raised # Returned
        THEN Result(<<>>, NoMessage, _get_do_client(credentials).raised)
        ELSE add_txt_record(_get_do_client(credentials).api_token, domain, validation_name, validation, resp, build)

_cleanup(credentials, domain, validation_name, validation, resp, build) ==
    IF _get_do_client(credentials).raised # Returned
        THEN Result(<<>>, NoMessage, _get_do_client(credentials).raised)
        ELSE del_txt_record(_get_do_client(credentials).api_token, domain, validation_name, validation, resp, build)

\* The number of client operations a callback calls: one, once
\* _get_do_client has returned a client.
ClientCalls(credentials) ==
    IF _get_do_client(credentials).raised = Returned THEN 1 ELSE 0

\* ---- the provider -------------------------------------------------------
\* The provider carries a request out exactly when it answers 200 with
\* {"success": true}.
Accepted(resp) ==
    resp.net = "ok" /\ resp.status = 200 /\ resp.body.kind = "object" /\ resp.body.success = "true"

\* The zone's TXT records, as <<name, value>> pairs, after the provider has
\* handled the requests of one call: a request with a value publishes it under
\* the name; a request with action=delete removes whatever is under the name.
Provider(z, sent, resp) ==
    IF sent = <<>> \/ ~Accepted(resp) THEN z
    ELSE IF "value" \in DOMAIN sent[1] THEN z \cup {<<sent[1].domain, sent[1].value>>}
    ELSE {r \in z : r[1] # sent[1].domain}

\* ---- state --------------------------------------------------------------
VARIABLES
    credentials_file,   \* the credentials file of the account
    credentials,        \* self.credentials of each invocation's Authenticator
    pc,                 \* where the host is with each invocation
    args,               \* the challenge (domain, name, value) of each invocation
    sent,               \* the HTTP requests each invocation has issued
    calls,              \* how many client operations each invocation has called
    last,               \* the most recent callback: its arguments, response and result
    zone                \* the provider's TXT records

vars == <<credentials_file, credentials, pc, args, sent, calls, last, zone>>

NoArgs == [domain |-> "", name |-> 0, value |-> 0]
NoResponse == [net |-> "none", status |-> 0, body |-> [kind |-> "unparsable", success |-> "absent"]]
NoCall == [proc |-> "", callback |-> "", args |-> NoArgs, resp |-> NoResponse, build |-> "", result |-> Result(<<>>, NoMessage, Returned)]

Challenges == [domain : Domains, name : Names, value : Values]

Init ==
    /\ credentials_file \in CredentialsFiles
    /\ credentials = [p \in Procs |-> NoCredentials]
    /\ pc = [p \in Procs |-> "start"]
    /\ args = [p \in Procs |-> NoArgs]
    /\ sent = [p \in Procs |-> <<>>]
    /\ calls = [p \in Procs |-> 0]
    /\ last = NoCall
    /\ zone = {}

\* The host's perform() first loads the credentials. When that raises, the
\* host's perform() ends there and its cleanup() calls no _cleanup (it calls
\* _cleanup only once perform() has got past _setup_credentials).
SetupCredentials(p) ==
    /\ pc[p] = "start"
    /\ LET r == _setup_credentials(credentials[p], credentials_file)
       IN  /\ credentials' = [credentials EXCEPT ![p] = r.credentials]
           /\ pc' = [pc EXCEPT ![p] = IF r.raised = Returned THEN "configured" ELSE "unconfigured"]
           /\ last' = [proc |-> p, callback |-> "_setup_credentials", args |-> NoArgs,
                       resp |-> NoResponse, build |-> "", result |-> Result(<<>>, NoMessage, r.raised)]
    /\ UNCHANGED <<credentials_file, args, sent, calls, zone>>

\* The host's perform() then calls _perform for the challenge.
Perform(p) ==
    /\ pc[p] = "configured"
    /\ \E c \in Challenges, x \in Exchanges :
        LET resp == x.resp
            build == x.build
            r == _perform(credentials[p], c.domain, c.name, c.value, resp, build)
        IN  /\ args' = [args EXCEPT ![p] = c]
            /\ sent' = [sent EXCEPT ![p] = @ \o r.sent]
            /\ calls' = [calls EXCEPT ![p] = @ + ClientCalls(credentials[p])]
            /\ last' = [proc |-> p, callback |-> "_perform", args |-> c,
                        resp |-> resp, build |-> build, result |-> r]
            /\ zone' = Provider(zone, r.sent, resp)
    /\ pc' = [pc EXCEPT ![p] = "performed"]
    /\ UNCHANGED <<credentials_file, credentials>>

\* The host's cleanup() calls _cleanup with the challenge it performed, also
\* when _perform raised.
Cleanup(p) ==
    /\ pc[p] = "performed"
    /\ \E x \in Exchanges :
        LET resp == x.resp
            build == x.build
            c == args[p]
            r == _cleanup(credentials[p], c.domain, c.name, c.value, resp, build)
        IN  /\ sent' = [sent EXCEPT ![p] = @ \o r.sent]
            /\ calls' = [calls EXCEPT ![p] = @ + ClientCalls(credentials[p])]
            /\ last' = [proc |-> p, callback |-> "_cleanup", args |-> c,
                        resp |-> resp, build |-> build, result |-> r]
            /\ zone' = Provider(zone, r.sent, resp)
    /\ pc' = [pc EXCEPT ![p] = "done"]
    /\ UNCHANGED <<credentials_file, credentials, args>>

Step(p) == SetupCredentials(p) \/ Perform(p) \/ Cleanup(p)

\* One invocation of the plugin.
Next == \E p \in {"certbot-A"} : Step(p)

Spec == Init /\ [][Next]_vars

\* Two invocations of the plugin running concurrently against one account.
NextConcurrent == \E p \in Procs : Step(p)

SpecConcurrent == Init /\ [][NextConcurrent]_vars

\* ---- properties ---------------------------------------------------------
\* The token of the account's credentials file, None when the key is missing.
FileToken == conf([set |-> TRUE, confobj |-> credentials_file], "api-token")

\* The last callback was p's callback cb and it called a client operation.
ClientCalled(cb) == last.callback = cb /\ credentials[last.proc].set

\* The provider's answer, as the wire protocol reads it.
Is2xx(resp) == resp.net = "ok" /\ resp.status >= 200 /\ resp.status <= 299
HasJsonObject(resp) == resp.net = "ok" /\ resp.body.kind = "object"
SuccessTrue(resp) == Is2xx(resp) /\ HasJsonObject(resp) /\ resp.body.success = "true"

\* The failure causes: a network error, a non-2xx status, a body that is not
\* JSON, a body with no success member, a false success member.
FailureCause(resp) ==
    \/ resp.net = "error"
    \/ ~Is2xx(resp)
    \/ resp.body.kind = "unparsable"
    \/ resp.body.kind \in {"null", "list"}
    \/ resp.body.kind = "object" /\ resp.body.success \in {"absent", "false"}

\* A message shows the token when the exception text formatted into it names
\* the request's URL, whose query string carries the token.
Discloses(msg) == msg.e.url # <<>> /\ msg.e.url[1].token \in Tokens

\* C1: every failure cause of add_txt_record makes _perform raise PluginError,
\* and no other kind of error, to the host.
C1_AddFailureRaisesPluginError ==
    ClientCalled("_perform") /\ FailureCause(last.resp)
        => last.result.raised.type = "PluginError"

\* C2: del_txt_record never raises, whatever the provider's answer, and logs
\* an error on every failing answer.
C2_DeleteNeverRaises ==
    ClientCalled("_cleanup")
        => /\ last.result.raised = Returned
           /\ FailureCause(last.resp) => last.result.logged # NoMessage

\* C3: add_txt_record issues exactly one GET with exactly the parameters
\* token, domain = record name, value = record value, and returns normally if
\* and only if the answer is 2xx with a JSON body whose success member is true.
C3_AddRequestAndSuccess ==
    ClientCalled("_perform")
        => /\ last.result.sent = <<[token |-> FileToken, domain |-> last.args.name, value |-> last.args.value]>>
           /\ last.result.raised = Returned <=> SuccessTrue(last.resp)

\* C4: _cleanup never raises, in whichever state the host calls it.
C4_CleanupNeverRaises ==
    last.callback = "_cleanup" => last.result.raised = Returned

\* C5: a cleanup removes no record but the one with its own name and content,
\* so it never deletes what a concurrent challenge for the same name published.
C5_CleanupKeepsOthersRecords ==
    [][\A r \in zone : r \notin zone' => r = <<last'.args.name, last'.args.value>>]_vars

\* C6: with no api-token in the credentials file the perform path fails with
\* the configuration error of _setup_credentials and no request is ever issued.
C6_MissingTokenNoRequest ==
    FileToken = None
        => \A p \in Procs :
            /\ sent[p] = <<>>
            /\ calls[p] = 0
            /\ pc[p] \in {"start", "unconfigured"}
            /\ pc[p] = "unconfigured" /\ last.proc = p => last.result.raised.type = "PluginError"

C6_Witness ==
    /\ FileToken = None
    /\ pc["certbot-A"] = "unconfigured"
    /\ last.callback = "_setup_credentials"
    /\ last.result.raised.type = "PluginError"

C8_SuccessExactlyTrue ==
    Is2xx(last.resp) /\ HasJsonObject(last.resp) /\ last.resp.body.success # "true"
        => /\ ClientCalled("_perform") => last.result.raised.type = "PluginError"
           /\ ClientCalled("_cleanup") => last.result.logged # NoMessage

\* C9: every call of add_txt_record or del_txt_record issues exactly one
\* request, whatever the outcome, so one invocation's perform and cleanup
\* issue at most two.
C9_NoRetries ==
    /\ ClientCalled("_perform") \/ ClientCalled("_cleanup") => Len(last.result.sent) = 1
    /\ \A p \in Procs : Len(sent[p]) = calls[p] /\ Len(sent[p]) <= 2

C9_Witness ==
    /\ pc["certbot-A"] = "done"
    /\ Len(sent["certbot-A"]) = 2
    /\ "value" \in DOMAIN sent["certbot-A"][1]
    /\ ClientCalled("_cleanup")
    /\ FailureCause(last.resp)
    /\ last.result.logged # NoMessage

\* C10: no logged message and no message of a raised error shows the token.
C10_TokenNotDisclosed ==
    ~Discloses(last.result.logged) /\ ~Discloses(last.result.raised.msg)

====
